---- MODULE Spec2Model ----
(***************************************************************************)
(* Model of the equipment-lending LINE bot of src/app.py.                  *)
(*                                                                         *)
(* The persisted state is two worksheets: ws_items (header row + one row   *)
(* per item) and ws_tx (header row + one row per borrow/return).  Each     *)
(* inbound text message is handled by handle_text; a handler is modelled   *)
(* as a small process whose steps are the spreadsheet API calls it makes,  *)
(* so that handlers of concurrent webhook requests can interleave between  *)
(* a read and the write that depends on it.                                *)
(*                                                                         *)
(* Not modelled: the columns ts and user_name of ws_tx (written by add_tx, *)
(* never read by any code path), multi-token notes (a note is the join of  *)
(* at most one token), and failures of the spreadsheet / LINE APIs.        *)
(***************************************************************************)
EXTENDS Integers, Sequences, FiniteSets, TLC

VARIABLES ws_items, ws_tx, pc, source, local, reply

vars == <<ws_items, ws_tx, pc, source, local, reply>>

(***************************************************************************)
(* Bounds of the model.                                                    *)
(***************************************************************************)
\* largest number of data rows the ledger grows to, one request at a time
MaxTx == 3

\* the same, with concurrent requests
MaxTxConc == 2

Handlers == {"h1", "h2"}

\* event.source of the inbound messages: (group_id, user_id)
Sources == { [gid |-> "G1", uid |-> "U1"], [gid |-> "G2", uid |-> "U2"] }

\* second token of a command; "item" is also the first word of the items header
ItemNames == {"tripod", "cable", "item"}

\* third token of a command, as the characters of the token
QtyTokens == { <<"1">>, <<"2">>, <<"0">>, <<"-", "1">>,
               <<"-", "-", "1">>, <<"+", "1">>, <<"a">>, <<"-">> }

\* fourth token of a command (the note); "total" is also a word of the header
NoteTokens == {"total"}

(***************************************************************************)
(* Cells of a worksheet: a cell holds text or a number.                    *)
(***************************************************************************)
Str(s) == [t |-> "s", s |-> s, n |-> 0]
Num(n) == [t |-> "n", s |-> "", n |-> n]
PyNone == [t |-> "none", s |-> "", n |-> 0]

ItemsHeader == <<Str("item"), Str("total"), Str("note")>>

TxHeader == [group_id |-> "group_id", user_id |-> "user_id", item |-> "item",
             delta |-> Str("delta"), note |-> "note"]

(***************************************************************************)
(* Text helpers: str.lower, str.startswith, str.lstrip("-"), str.isdigit,  *)
(* int(str), " ".join.                                                     *)
(***************************************************************************)
LowerChar(c) ==
    CASE c = "A" -> "a" [] c = "B" -> "b" [] c = "D" -> "d" [] c = "E" -> "e"
      [] c = "H" -> "h" [] c = "I" -> "i" [] c = "M" -> "m" [] c = "O" -> "o"
      [] c = "R" -> "r" [] c = "T" -> "t" [] c = "W" -> "w"
      [] OTHER -> c

Lower(s) == [i \in 1..Len(s) |-> LowerChar(s[i])]

StartsWith(s, p) == Len(s) >= Len(p) /\ SubSeq(s, 1, Len(p)) = p

RECURSIVE LStripMinus(_)
LStripMinus(s) == IF s # <<>> /\ Head(s) = "-" THEN LStripMinus(Tail(s)) ELSE s

Digits == {"0", "1", "2", "3", "4", "5", "6", "7", "8", "9"}

DigitVal(c) ==
    CASE c = "0" -> 0 [] c = "1" -> 1 [] c = "2" -> 2 [] c = "3" -> 3
      [] c = "4" -> 4 [] c = "5" -> 5 [] c = "6" -> 6 [] c = "7" -> 7
      [] c = "8" -> 8 [] c = "9" -> 9

IsDigit(s) == s # <<>> /\ \A i \in 1..Len(s) : s[i] \in Digits

RECURSIVE DecVal(_)
DecVal(s) == IF s = <<>> THEN 0
             ELSE 10 * DecVal(SubSeq(s, 1, Len(s) - 1)) + DigitVal(s[Len(s)])

\* int(s) raises ValueError unless s is digits with at most one sign
IntParses(s) == \/ IsDigit(s)
                \/ s # <<>> /\ Head(s) \in {"+", "-"} /\ IsDigit(Tail(s))

IntVal(s) == IF IsDigit(s) THEN DecVal(s)
             ELSE IF Head(s) = "-" THEN 0 - DecVal(Tail(s))
             ELSE DecVal(Tail(s))

\* " ".join(tokens[3:]) if len(tokens) > 3 else ""
JoinNote(tokens) == IF Len(tokens) > 3 THEN tokens[4] ELSE ""


(***************************************************************************)
(* Google Sheets storage (src/app.py 57-106).                              *)
(***************************************************************************)
\* ws_items.col_values(1): the first column, header row included
ColValues(ws) == [i \in 1..Len(ws) |-> ws[i][1].s]

\* items.index(item) + 1, or 0 where list.index raises ValueError
RowIndex(col, item) ==
    IF \E i \in 1..Len(col) : col[i] = item
    THEN CHOOSE i \in 1..Len(col) :
             col[i] = item /\ \A j \in 1..(i - 1) : col[j] # item
    ELSE 0

\* ws_items.update(f"B{idx}:C{idx}", [[total, note]])
UpdateRow(ws, idx, total, note) ==
    [ws EXCEPT ![idx] = <<ws[idx][1], Num(total), Str(note)>>]

\* ws_items.append_row([item, total, note])
AppendItemRow(ws, item, total, note) ==
    Append(ws, <<Str(item), Num(total), Str(note)>>)

\* the write of upsert_item, decided on the first column read earlier
UpsertWrite(ws, col, item, total, note) ==
    LET idx == RowIndex(col, item)
    IN  IF idx # 0 THEN UpdateRow(ws, idx, total, note)
        ELSE AppendItemRow(ws, item, total, note)

\* mutant: the group and the user land in each other's column
TxRow_SwappedIds(src, item, delta, note) ==
    [group_id |-> src.uid, user_id |-> src.gid, item |-> item,
     delta |-> Num(delta), note |-> note]

\* the row add_tx appends (ts and user_name left out)
TxRow(src, item, delta, note) ==
    [group_id |-> src.gid, user_id |-> src.uid, item |-> item,
     delta |-> Num(delta), note |-> note]

\* mutant: the row is inserted below the header instead of appended
add_tx_InsertFirst(ws, src, item, delta, note) ==
    <<Head(ws), TxRow(src, item, delta, note)>> \o Tail(ws)

add_tx(ws, src, item, delta, note) == Append(ws, TxRow(src, item, delta, note))

\* int(r[5]) inside try/except: a cell that is not a number adds nothing
DeltaOf(row) == IF row.delta.t = "n" THEN row.delta.n ELSE 0

\* rows[1:] of ws_tx.get_all_values()
DataRows(ws) == Tail(ws)

RECURSIVE SumItem(_, _)
SumItem(rows, item) ==
    IF rows = <<>> THEN 0
    ELSE SumItem(SubSeq(rows, 1, Len(rows) - 1), item)
         + (IF rows[Len(rows)].item = item THEN DeltaOf(rows[Len(rows)]) ELSE 0)

sum_borrowed(ws, item) == SumItem(DataRows(ws), item)

RECURSIVE SumUserItem(_, _, _)
SumUserItem(rows, user_id, item) ==
    IF rows = <<>> THEN 0
    ELSE SumUserItem(SubSeq(rows, 1, Len(rows) - 1), user_id, item)
         + (IF rows[Len(rows)].user_id = user_id /\ rows[Len(rows)].item = item
            THEN DeltaOf(rows[Len(rows)]) ELSE 0)

user_borrowed(ws, user_id, item) == SumUserItem(DataRows(ws), user_id, item)

\* ws_items.get_all_records(): row 1 gives the keys, every later row a record;
\* a numeric header cell gives a numeral key, which is neither "item" nor "total"
HasKey(ws, key) == \E c \in 1..3 : ws[1][c].t = "s" /\ ws[1][c].s = key

KeyCol(ws, key) ==
    CHOOSE c \in 1..3 :
        /\ ws[1][c].t = "s" /\ ws[1][c].s = key
        /\ \A d \in (c + 1)..3 : ~(ws[1][d].t = "s" /\ ws[1][d].s = key)

\* r.get(key, default) on record number i
RecGet(ws, i, key, default) ==
    IF HasKey(ws, key) THEN ws[i + 1][KeyCol(ws, key)] ELSE default

NumRecords(ws) == Len(ws) - 1

\* str(r.get("item")) == item
RecIsItem(ws, i, item) ==
    LET c == RecGet(ws, i, "item", PyNone)
    IN  c.t = "s" /\ c.s = item

ItemNone == [kind |-> "none", item |-> "", total |-> 0, note |-> PyNone]
ItemFault == [kind |-> "fault", item |-> "", total |-> 0, note |-> PyNone]

\* {"item": item, "total": int(r.get("total", 0)), "note": r.get("note")}
\* int() of a text cell raises
RecordOf(ws, i, item) ==
    LET tot == RecGet(ws, i, "total", Num(0))
    IN  IF tot.t = "n"
        THEN [kind |-> "item", item |-> item, total |-> tot.n,
              note |-> RecGet(ws, i, "note", PyNone)]
        ELSE ItemFault

get_item(ws, item) ==
    IF \E i \in 1..NumRecords(ws) : RecIsItem(ws, i, item)
    THEN LET i == CHOOSE k \in 1..NumRecords(ws) :
                      /\ RecIsItem(ws, k, item)
                      /\ \A j \in 1..(k - 1) : ~RecIsItem(ws, j, item)
         IN  RecordOf(ws, i, item)
    ELSE ItemNone


(***************************************************************************)
(* The inbound message and the command prefixes (src/app.py 148-240).      *)
(***************************************************************************)
P_yesno   == <<"!", "y", "e", "s", "n", "o">>
P_trun    == <<"!", "t", "r", "u", "n">>
P_pick    == <<"!", "p", "i", "c", "k">>
P_help    == <<"!", "h", "e", "l", "p">>
P_gid     == <<"!", "g", "i", "d">>
P_uid     == <<"!", "u", "i", "d">>
P_additem == <<"!", "a", "d", "d", "i", "t", "e", "m">>
P_status  == <<"!", "s", "t", "a", "t", "u", "s">>
P_borrow  == <<"!", "b", "o", "r", "r", "o", "w">>
P_return  == <<"!", "r", "e", "t", "u", "r", "n">>
P_mine    == <<"!", "m", "i", "n", "e">>

\* first token of the messages the model sends: every prefix as written, one in
\* capitals, one with a suffix, and one that is no command
Words == { P_yesno, P_pick, P_help, P_gid, P_uid, P_additem, P_status,
           P_borrow, P_return, P_mine,
           <<"!", "B", "O", "R", "R", "O", "W">>,
           <<"!", "r", "e", "t", "u", "r", "n", "s">>,
           <<"h", "e", "l", "l", "o">> }

\* the branch of handle_text that a lower-cased text takes
Branch(lower) ==
    IF StartsWith(lower, P_yesno) THEN "yesno"
    ELSE IF StartsWith(lower, P_trun) \/ StartsWith(lower, P_pick) THEN "pick"
    ELSE IF StartsWith(lower, P_help) THEN "help"
    ELSE IF StartsWith(lower, P_gid) THEN "gid"
    ELSE IF StartsWith(lower, P_uid) THEN "uid"
    ELSE IF StartsWith(lower, P_additem) THEN "additem"
    ELSE IF StartsWith(lower, P_status) THEN "status"
    ELSE IF StartsWith(lower, P_borrow) \/ StartsWith(lower, P_return)
         THEN (IF StartsWith(lower, P_borrow) THEN "borrow" ELSE "return")
    ELSE IF StartsWith(lower, P_mine) THEN "mine"
    ELSE "none"

\* the branch taken for each first word the model sends
BranchOf == [w \in Words |-> Branch(Lower(w))]

\* len(tokens) < 3 or not tokens[2].lstrip("-").isdigit()
BadArgs(tokens) == Len(tokens) < 3 \/ ~IsDigit(LStripMinus(tokens[3]))

NoSource == [gid |-> "", uid |-> ""]

\* the handler's local variables; argv is tokens[1:]
NoLocal == [cmd |-> "", argv |-> <<>>, item |-> "", qty |-> 0, note |-> "",
            r |-> ItemNone,
            col |-> <<>>, borrowed |-> 0, have |-> 0, rows |-> <<>>, i |-> 0,
            info |-> <<>>]

\* what the handler answers: the kind of reply and the values its text carries
NoReply == [kind |-> "", item |-> "", total |-> 0, borrowed |-> 0, avail |-> 0,
            qty |-> 0, have |-> 0, adjusted |-> FALSE, lines |-> <<>>,
            choice |-> 0]

Answer(kind) == [NoReply EXCEPT !.kind = kind]

\* mutant: no clamp, the first argument is taken as it is
Min_First(a, b) == a

Min(a, b) == IF a <= b THEN a ELSE b

\* ledger rows that handlers under way may still append
Pending == Cardinality({g \in Handlers :
                          local[g].cmd \in {"borrow", "return"} /\ pc[g] # "finish"})

(***************************************************************************)
(* State after construction: both worksheets hold their header row only.   *)
(***************************************************************************)
Init ==
    /\ ws_items = <<ItemsHeader>>
    /\ ws_tx = <<TxHeader>>
    /\ pc = [h \in Handlers |-> "idle"]
    /\ source = [h \in Handlers |-> NoSource]
    /\ local = [h \in Handlers |-> NoLocal]
    /\ reply = [h \in Handlers |-> NoReply]

(***************************************************************************)
(* handle_text up to its first spreadsheet call.                           *)
(***************************************************************************)
Parse(h, src, tokens, choice) ==
    LET br == BranchOf[tokens[1]]
        go(label, loc) ==
            /\ pc' = [pc EXCEPT ![h] = label]
            /\ local' = [local EXCEPT ![h] = loc]
            /\ reply' = [reply EXCEPT ![h] = NoReply]
        answer(a) ==
            /\ pc' = [pc EXCEPT ![h] = "finish"]
            /\ local' = [local EXCEPT ![h] = [NoLocal EXCEPT !.cmd = br,
                                                             !.argv = Tail(tokens)]]
            /\ reply' = [reply EXCEPT ![h] = a]
        args == [NoLocal EXCEPT !.cmd = br, !.argv = Tail(tokens),
                                !.item = tokens[2],
                                !.qty = IntVal(tokens[3]),
                                !.note = JoinNote(tokens)]
    IN  CASE br = "yesno" -> answer([Answer("YesNo") EXCEPT !.choice = choice])
          [] br = "pick" ->
                answer([Answer("Pick") EXCEPT
                           !.choice = IF Len(tokens) > 1
                                      THEN 1 + (choice % (Len(tokens) - 1))
                                      ELSE 0])
          [] br = "help" -> answer(Answer("Help"))
          [] br = "gid" -> answer(Answer("Gid"))
          [] br = "uid" -> answer(Answer("Uid"))
          [] br \in {"additem", "borrow", "return"} ->
                IF BadArgs(tokens) THEN answer(Answer("MalformedArgs"))
                ELSE IF ~IntParses(tokens[3]) THEN answer(Answer("Fault"))
                ELSE IF br = "additem" THEN go("col_values", args)
                ELSE go("get_item", args)
          [] br = "status" ->
                IF Len(tokens) >= 2
                THEN go("get_item", [NoLocal EXCEPT !.cmd = br,
                                        !.argv = Tail(tokens), !.item = tokens[2]])
                ELSE go("get_all_records", [NoLocal EXCEPT !.cmd = "status_all"])
          [] br = "mine" -> go("mine", [NoLocal EXCEPT !.cmd = br])
          [] OTHER -> answer(Answer("NoReply"))

\* The messages the model sends: source, tokens (first word, item, quantity,
\* note; the first n of them) and the outcome of random.choice.
AllMessages ==
    [src : Sources, word : Words, n : 1..4, item : ItemNames, q : QtyTokens,
     note : NoteTokens, choice : 0..1]

TokensOf(m) == SubSeq(<<m.word, m.item, m.q, m.note>>, 1, m.n)

\* one message for each text: tokens that are not sent have a fixed value
Canonical(m) ==
    /\ m.n < 2 => m.item = "tripod"
    /\ m.n < 3 => m.q = <<"1">>
    /\ BranchOf[m.word] \notin {"yesno", "pick"} => m.choice = 0
    /\ BranchOf[m.word] \in {"yesno", "help", "gid", "uid", "mine", "none"}
           => m.n = 1
    /\ BranchOf[m.word] = "pick" => m.n <= 2
    /\ BranchOf[m.word] = "status" => m.n <= 2
    /\ (BranchOf[m.word] \in {"additem", "borrow", "return"}
           /\ (BadArgs(TokensOf(m)) \/ ~IntParses(m.q))) => m.item = "tripod"

\* the !additem commands sent with arguments that parse
Definitions ==
    { <<"tripod", <<"1">>, 3>>, <<"tripod", <<"2">>, 3>>,
      <<"tripod", <<"-", "1">>, 3>>, <<"cable", <<"1">>, 3>>,
      <<"item", <<"1">>, 3>>, <<"item", <<"1">>, 4>> }

Messages ==
    { m \in AllMessages :
        /\ Canonical(m)
        /\ m.n = 4 => BranchOf[m.word] = "additem"
        /\ BranchOf[m.word] = "additem" /\ ~BadArgs(TokensOf(m))
               /\ IntParses(m.q) => <<m.item, m.q, m.n>> \in Definitions
        /\ BranchOf[m.word] \in {"borrow", "return"} => m.item # "item" }

\* the messages sent when requests are handled concurrently
MessagesConc ==
    { m \in Messages :
        /\ m.item = "tripod"
        /\ \/ m.word = P_additem /\ m.n = 3 /\ m.q \in {<<"1">>, <<"2">>}
                                 /\ m.src.uid = "U1"
           \/ m.word = P_borrow /\ m.n = 3 /\ m.q = <<"2">>
           \/ m.word = P_return /\ m.n = 3 /\ m.q = <<"2">>
           \/ m.word \in {P_status, P_mine} /\ m.src.uid = "U1" }

Receive(h, messages, cap) ==
    /\ pc[h] = "idle"
    /\ \E m \in messages :
          /\ BranchOf[m.word] \in {"borrow", "return"} =>
                 Len(DataRows(ws_tx)) + Pending < cap
          /\ source' = [source EXCEPT ![h] = m.src]
          /\ Parse(h, m.src, TokensOf(m), m.choice)
    /\ UNCHANGED <<ws_items, ws_tx>>

(***************************************************************************)
(* The steps of a handler: one per spreadsheet call.                       *)
(***************************************************************************)
Goto(h, label) == pc' = [pc EXCEPT ![h] = label]

Finished(h, a) ==
    /\ pc' = [pc EXCEPT ![h] = "finish"]
    /\ reply' = [reply EXCEPT ![h] = a]

\* upsert_item, line 61: items = ws_items.col_values(1)
ReadColumn(h) ==
    /\ pc[h] = "col_values"
    /\ local' = [local EXCEPT ![h].col = ColValues(ws_items)]
    /\ Goto(h, "upsert_write")
    /\ UNCHANGED <<ws_items, ws_tx, source, reply>>

\* upsert_item, lines 62-66, and the reply of line 183
WriteItem(h) ==
    /\ pc[h] = "upsert_write"
    /\ ws_items' = UpsertWrite(ws_items, local[h].col, local[h].item,
                               local[h].qty, local[h].note)
    /\ Finished(h, [Answer("Defined") EXCEPT !.item = local[h].item,
                                             !.total = local[h].qty])
    /\ UNCHANGED <<ws_tx, source, local>>

\* r = get_item(item), lines 189-190 and 204-209
GetItem(h) ==
    /\ pc[h] = "get_item"
    /\ LET r == get_item(ws_items, local[h].item)
       IN  /\ local' = [local EXCEPT ![h].r = r]
           /\ IF r.kind = "fault" THEN Finished(h, Answer("Fault"))
              ELSE IF r.kind = "none"
              THEN Finished(h, [Answer("ItemNotFound") EXCEPT !.item = local[h].item])
              ELSE /\ Goto(h, IF local[h].cmd = "return" THEN "user_borrowed"
                              ELSE "sum_borrowed")
                   /\ UNCHANGED reply
    /\ UNCHANGED <<ws_items, ws_tx, source>>

\* mutant: the row is appended before the stock is checked
SumBorrowed_AppendFirst(h) ==
    /\ pc[h] = "sum_borrowed"
    /\ LET item == local[h].item
           qty == local[h].qty
           total == local[h].r.total
           borrowed == sum_borrowed(ws_tx, item)
           avail == total - borrowed
       IN  /\ local' = [local EXCEPT ![h].borrowed = borrowed]
           /\ IF local[h].cmd = "status"
              THEN /\ Finished(h, [Answer("Status") EXCEPT !.item = item,
                                      !.total = total, !.borrowed = borrowed,
                                      !.avail = avail])
                   /\ UNCHANGED ws_tx
              ELSE IF qty <= 0
              THEN /\ Finished(h, [Answer("InvalidQuantity") EXCEPT
                                      !.item = item, !.qty = qty])
                   /\ UNCHANGED ws_tx
              ELSE /\ ws_tx' = add_tx(ws_tx, source[h], item, qty, local[h].note)
                   /\ IF avail < qty
                      THEN Finished(h, [Answer("InsufficientStock") EXCEPT
                                           !.item = item, !.avail = avail,
                                           !.qty = qty])
                      ELSE Finished(h, [Answer("Borrowed") EXCEPT !.item = item,
                                                                  !.qty = qty])
    /\ UNCHANGED <<ws_items, source>>

\* mutant: the stock is not checked
SumBorrowed_NoStockCheck(h) ==
    /\ pc[h] = "sum_borrowed"
    /\ LET item == local[h].item
           qty == local[h].qty
           total == local[h].r.total
           borrowed == sum_borrowed(ws_tx, item)
           avail == total - borrowed
       IN  /\ local' = [local EXCEPT ![h].borrowed = borrowed]
           /\ IF local[h].cmd = "status"
              THEN Finished(h, [Answer("Status") EXCEPT !.item = item,
                                   !.total = total, !.borrowed = borrowed,
                                   !.avail = avail])
              ELSE IF qty <= 0
              THEN Finished(h, [Answer("InvalidQuantity") EXCEPT !.item = item,
                                                                 !.qty = qty])
              ELSE Goto(h, "add_tx") /\ UNCHANGED reply
    /\ UNCHANGED <<ws_items, ws_tx, source>>

\* borrowed = sum_borrowed(item) and what follows it, lines 192-193 and 211-213
SumBorrowed(h) ==
    /\ pc[h] = "sum_borrowed"
    /\ LET item == local[h].item
           qty == local[h].qty
           total == local[h].r.total
           borrowed == sum_borrowed(ws_tx, item)
           avail == total - borrowed
       IN  /\ local' = [local EXCEPT ![h].borrowed = borrowed]
           /\ IF local[h].cmd = "status"
              THEN Finished(h, [Answer("Status") EXCEPT !.item = item,
                                   !.total = total, !.borrowed = borrowed,
                                   !.avail = avail])
              ELSE IF qty <= 0
              THEN Finished(h, [Answer("InvalidQuantity") EXCEPT !.item = item,
                                                                 !.qty = qty])
              ELSE IF avail < qty
              THEN Finished(h, [Answer("InsufficientStock") EXCEPT !.item = item,
                                   !.avail = avail, !.qty = qty])
              ELSE Goto(h, "add_tx") /\ UNCHANGED reply
    /\ UNCHANGED <<ws_items, ws_tx, source>>

\* mutant: the balance checked is that of all users together
UserBorrowed_AllUsers(h) ==
    /\ pc[h] = "user_borrowed"
    /\ LET item == local[h].item
           qty == local[h].qty
           have == sum_borrowed(ws_tx, item)
       IN  /\ local' = [local EXCEPT ![h].have = have]
           /\ IF qty <= 0
              THEN Finished(h, [Answer("InvalidQuantity") EXCEPT !.item = item,
                                                                 !.qty = qty])
              ELSE IF have <= 0
              THEN Finished(h, [Answer("NothingToReturn") EXCEPT !.item = item])
              ELSE Goto(h, "add_tx") /\ UNCHANGED reply
    /\ UNCHANGED <<ws_items, ws_tx, source>>

\* have = user_borrowed(uid, item) and what follows it, lines 218-220
UserBorrowed(h) ==
    /\ pc[h] = "user_borrowed"
    /\ LET item == local[h].item
           qty == local[h].qty
           have == user_borrowed(ws_tx, source[h].uid, item)
       IN  /\ local' = [local EXCEPT ![h].have = have]
           /\ IF qty <= 0
              THEN Finished(h, [Answer("InvalidQuantity") EXCEPT !.item = item,
                                                                 !.qty = qty])
              ELSE IF have <= 0
              THEN Finished(h, [Answer("NothingToReturn") EXCEPT !.item = item])
              ELSE Goto(h, "add_tx") /\ UNCHANGED reply
    /\ UNCHANGED <<ws_items, ws_tx, source>>

\* mutant: the clamp is computed on the ledger as it is when the row is written
AddTx_FreshBalance(h) ==
    /\ pc[h] = "add_tx"
    /\ LET item == local[h].item
           qty == local[h].qty
           have == user_borrowed(ws_tx, source[h].uid, item)
           real == Min(qty, have)
       IN  IF local[h].cmd = "borrow"
           THEN /\ ws_tx' = add_tx(ws_tx, source[h], item, qty, local[h].note)
                /\ Finished(h, [Answer("Borrowed") EXCEPT !.item = item,
                                                          !.qty = qty])
           ELSE /\ ws_tx' = add_tx(ws_tx, source[h], item, 0 - real,
                                   local[h].note)
                /\ Finished(h, [Answer("Returned") EXCEPT !.item = item,
                                   !.qty = real, !.have = have,
                                   !.adjusted = (real # qty)])
    /\ UNCHANGED <<ws_items, source, local>>

\* add_tx and the reply after it, lines 215-216 and 222-225
AddTx(h) ==
    /\ pc[h] = "add_tx"
    /\ LET item == local[h].item
           qty == local[h].qty
           have == local[h].have
           real == Min(qty, have)
       IN  IF local[h].cmd = "borrow"
           THEN /\ ws_tx' = add_tx(ws_tx, source[h], item, qty, local[h].note)
                /\ Finished(h, [Answer("Borrowed") EXCEPT !.item = item,
                                                          !.qty = qty])
           ELSE /\ ws_tx' = add_tx(ws_tx, source[h], item, 0 - real,
                                   local[h].note)
                /\ Finished(h, [Answer("Returned") EXCEPT !.item = item,
                                   !.qty = real, !.have = have,
                                   !.adjusted = (real # qty)])
    /\ UNCHANGED <<ws_items, source, local>>

\* status_all, line 98: rows = ws_items.get_all_records(); then item and total
\* of the first record (lines 101-102)
RowFaults(rows, i) == RecordOf(rows, i, "").kind = "fault"

ReadRecords(h) ==
    /\ pc[h] = "get_all_records"
    /\ local' = [local EXCEPT ![h].rows = ws_items, ![h].i = 1, ![h].info = <<>>]
    /\ IF NumRecords(ws_items) = 0
       THEN Finished(h, [Answer("StatusAll") EXCEPT !.lines = <<>>])
       ELSE IF RowFaults(ws_items, 1) THEN Finished(h, Answer("Fault"))
       ELSE Goto(h, "status_row") /\ UNCHANGED reply
    /\ UNCHANGED <<ws_items, ws_tx, source>>

\* mutant: the available quantity is floored at zero
StatusRow_Floored(h) ==
    /\ pc[h] = "status_row"
    /\ LET rows == local[h].rows
           i == local[h].i
           c == RecGet(rows, i, "item", PyNone)
           item == IF c.t = "s" THEN c.s ELSE "None"
           total == RecordOf(rows, i, item).total
           borrowed == sum_borrowed(ws_tx, item)
           info == Append(local[h].info,
                          [item |-> item, total |-> total, borrowed |-> borrowed,
                           avail |-> IF total < borrowed THEN 0
                                     ELSE total - borrowed])
       IN  /\ local' = [local EXCEPT ![h].info = info, ![h].i = i + 1]
           /\ IF i = NumRecords(rows)
              THEN Finished(h, [Answer("StatusAll") EXCEPT !.lines = info])
              ELSE IF RowFaults(rows, i + 1) THEN Finished(h, Answer("Fault"))
              ELSE Goto(h, "status_row") /\ UNCHANGED reply
    /\ UNCHANGED <<ws_items, ws_tx, source>>

\* status_all, lines 103-105 for one record, then lines 101-102 of the next
StatusRow(h) ==
    /\ pc[h] = "status_row"
    /\ LET rows == local[h].rows
           i == local[h].i
           c == RecGet(rows, i, "item", PyNone)
           item == IF c.t = "s" THEN c.s ELSE "None"
           total == RecordOf(rows, i, item).total
           borrowed == sum_borrowed(ws_tx, item)
           info == Append(local[h].info,
                          [item |-> item, total |-> total, borrowed |-> borrowed,
                           avail |-> total - borrowed])
       IN  /\ local' = [local EXCEPT ![h].info = info, ![h].i = i + 1]
           /\ IF i = NumRecords(rows)
              THEN Finished(h, [Answer("StatusAll") EXCEPT !.lines = info])
              ELSE IF RowFaults(rows, i + 1) THEN Finished(h, Answer("Fault"))
              ELSE Goto(h, "status_row") /\ UNCHANGED reply
    /\ UNCHANGED <<ws_items, ws_tx, source>>

\* tally[r[4]] = tally.get(r[4], 0) + delta on a dict kept in insertion order
HasEntry(tally, k) == \E j \in 1..Len(tally) : tally[j].item = k

TallyAdd(tally, k, delta) ==
    IF HasEntry(tally, k)
    THEN [j \in 1..Len(tally) |->
             IF tally[j].item = k
             THEN [item |-> k, n |-> tally[j].n + delta] ELSE tally[j]]
    ELSE Append(tally, [item |-> k, n |-> delta])

RECURSIVE Tally(_, _)
Tally(rows, uid) ==
    IF rows = <<>> THEN <<>>
    ELSE LET before == Tally(SubSeq(rows, 1, Len(rows) - 1), uid)
             r == rows[Len(rows)]
         IN  IF r.user_id = uid THEN TallyAdd(before, r.item, DeltaOf(r))
             ELSE before

RECURSIVE Positive(_)
Positive(tally) ==
    IF tally = <<>> THEN <<>>
    ELSE LET rest == Positive(Tail(tally))
         IN  IF Head(tally).n > 0 THEN <<Head(tally)>> \o rest ELSE rest

\* mutant: items with a balance of zero or less are listed too
Mine_Unfiltered(h) ==
    /\ pc[h] = "mine"
    /\ Finished(h, [Answer("Mine") EXCEPT
                       !.lines = Tally(DataRows(ws_tx), source[h].uid)])
    /\ UNCHANGED <<ws_items, ws_tx, source, local>>

\* the !mine branch, lines 228-237
Mine(h) ==
    /\ pc[h] = "mine"
    /\ Finished(h, [Answer("Mine") EXCEPT
                       !.lines = Positive(Tally(DataRows(ws_tx), source[h].uid))])
    /\ UNCHANGED <<ws_items, ws_tx, source, local>>

\* line 242 (reply_message, when there is a reply) and the return of the handler
Finish(h) ==
    /\ pc[h] = "finish"
    /\ pc' = [pc EXCEPT ![h] = "idle"]
    /\ source' = [source EXCEPT ![h] = NoSource]
    /\ local' = [local EXCEPT ![h] = NoLocal]
    /\ reply' = [reply EXCEPT ![h] = NoReply]
    /\ UNCHANGED <<ws_items, ws_tx>>

Step(h) ==
    \/ ReadColumn(h)
    \/ WriteItem(h)
    \/ GetItem(h)
    \/ SumBorrowed(h)
    \/ UserBorrowed(h)
    \/ AddTx(h)
    \/ ReadRecords(h)
    \/ StatusRow(h)
    \/ Mine(h)
    \/ Finish(h)

\* webhook requests handled concurrently: handlers interleave between calls
Next == \E h \in Handlers : Receive(h, MessagesConc, MaxTxConc) \/ Step(h)

Spec == Init /\ [][Next]_vars

\* two requests at a time with borrows and returns of one unit, on a ledger of
\* up to MaxTxRace rows
MaxTxRace == 4

MessagesRace ==
    { m \in Messages :
        /\ m.item = "tripod"
        /\ \/ m.word = P_additem /\ m.n = 3 /\ m.q = <<"2">> /\ m.src.uid = "U1"
           \/ m.word = P_borrow /\ m.n = 3 /\ m.q = <<"1">>
           \/ m.word = P_return /\ m.n = 3 /\ m.q = <<"1">> /\ m.src.uid = "U1"
           \/ m.word \in {P_status, P_mine} /\ m.src.uid = "U1" }

NextRace == \E h \in Handlers : Receive(h, MessagesRace, MaxTxRace) \/ Step(h)

SpecRace == Init /\ [][NextRace]_vars

\* one request at a time: the handler runs to its end before the next message
NextSerial == Receive("h1", Messages, MaxTx) \/ Step("h1")

SpecSerial == Init /\ [][NextSerial]_vars


(***************************************************************************)
(* Properties.                                                             *)
(***************************************************************************)
Rejected == {"MalformedArgs", "ItemNotFound", "InvalidQuantity",
             "InsufficientStock", "NothingToReturn"}

Succeeded == {"Defined", "Borrowed", "Returned"}

\* handler h ends its command in this step
Ends(h) == pc[h] # "finish" /\ pc'[h] = "finish"

\* handler h takes a step of a borrow / return command whose arguments parsed
InCommand(h, cmd) ==
    /\ local[h].cmd = cmd
    /\ pc[h] \in {"get_item", "sum_borrowed", "user_borrowed", "add_tx"}
    /\ pc'[h] # pc[h]

Registered(items, item) == get_item(items, item).kind = "item"

\* availableQuantity(item) = item.total - borrowedQuantity(item)
Available(items, tx, item) == get_item(items, item).total - sum_borrowed(tx, item)

Users == {s.uid : s \in Sources}

\* C1: a command that ends with MalformedArgs, ItemNotFound, InvalidQuantity,
\* InsufficientStock or NothingToReturn leaves both sheets as they were: the step
\* that rejects writes nothing, and every step that writes a sheet ends its
\* command with a success (so no step of a rejected command wrote before).
C1_RejectionLeavesNoTrace ==
    [][ /\ \A h \in Handlers :
              Ends(h) /\ reply'[h].kind \in Rejected
                  => ws_items' = ws_items /\ ws_tx' = ws_tx
        /\ (ws_items' # ws_items \/ ws_tx' # ws_tx)
              => \E h \in Handlers : Ends(h) /\ reply'[h].kind \in Succeeded
      ]_vars

\* C1 witness: a return is rejected with NothingToReturn on a ledger and a
\* catalog that hold rows
C1_Witness ==
    /\ pc["h1"] = "finish"
    /\ reply["h1"].kind = "NothingToReturn"
    /\ Len(ws_tx) > 1
    /\ Len(ws_items) > 1

\* C2: a Borrow(item, qty) appends a row iff the item is in the registry,
\* qty > 0 and total - borrowed >= qty; otherwise it appends nothing and answers
\* ItemNotFound, else InvalidQuantity, else InsufficientStock with the available
\* and the requested quantity.
C2_Expected(item, qty) ==
    IF ~Registered(ws_items, item) THEN "ItemNotFound"
    ELSE IF qty <= 0 THEN "InvalidQuantity"
    ELSE IF Available(ws_items, ws_tx, item) < qty THEN "InsufficientStock"
    ELSE "Borrowed"

C2_BorrowIffAvailable ==
    [][ \A h \in Handlers :
          InCommand(h, "borrow") =>
             LET item == local[h].item
                 qty == local[h].qty
                 want == C2_Expected(item, qty)
             IN  /\ (ws_tx' # ws_tx) <=> (Ends(h) /\ want = "Borrowed")
                 /\ Ends(h) =>
                      /\ reply'[h].kind = want
                      /\ want = "InsufficientStock" =>
                            /\ reply'[h].avail = Available(ws_items, ws_tx, item)
                            /\ reply'[h].qty = qty
      ]_vars

\* C3: a successful Borrow(item, q) by u from available A and outstanding h
\* gives available A - q and outstanding h + q, appends exactly one row with
\* delta = +q, user_id = u and that item, and leaves the registry, every other
\* item's borrowed quantity and every other balance unchanged.
C3_BorrowMonotonic ==
    [][ \A h \in Handlers :
          (local[h].cmd = "borrow" /\ Ends(h) /\ reply'[h].kind = "Borrowed") =>
             LET item == local[h].item
                 q == local[h].qty
                 u == source[h].uid
                 row == ws_tx'[Len(ws_tx')]
             IN  /\ Registered(ws_items', item)
                 /\ Available(ws_items', ws_tx', item)
                        = Available(ws_items, ws_tx, item) - q
                 /\ user_borrowed(ws_tx', u, item)
                        = user_borrowed(ws_tx, u, item) + q
                 /\ Len(ws_tx') = Len(ws_tx) + 1
                 /\ SubSeq(ws_tx', 1, Len(ws_tx)) = ws_tx
                 /\ row.delta = Num(q) /\ row.user_id = u /\ row.item = item
                 /\ ws_items' = ws_items
                 /\ \A j \in ItemNames \ {item} :
                        sum_borrowed(ws_tx', j) = sum_borrowed(ws_tx, j)
                 /\ \A v \in Users, j \in ItemNames :
                        <<v, j>> # <<u, item>> =>
                            user_borrowed(ws_tx', v, j) = user_borrowed(ws_tx, v, j)
      ]_vars

\* C3 witness: a borrow has just succeeded while another item and another user
\* have units outstanding
C3_Witness ==
    /\ pc["h1"] = "finish"
    /\ reply["h1"].kind = "Borrowed"
    /\ \E j \in ItemNames \ {reply["h1"].item} : sum_borrowed(ws_tx, j) > 0
    /\ \E v \in Users \ {source["h1"].uid} :
           user_borrowed(ws_tx, v, reply["h1"].item) > 0

C5_NoOverCommitSerial ==
    [][ \A item \in ItemNames :
          LET over(items, tx) ==
                  Registered(items, item) /\ Available(items, tx, item) < 0
          IN  /\ (~over(ws_items, ws_tx) /\ over(ws_items', ws_tx')) =>
                     \E h \in Handlers :
                         /\ pc[h] = "upsert_write" /\ Ends(h)
                         /\ local[h].item = item
                         /\ local[h].qty < sum_borrowed(ws_tx, item)
              /\ sum_borrowed(ws_tx', item) >= 0
      ]_vars

\* C6: a Borrow handler appends on the strength of the availability it read
\* itself (total - borrowed >= qty on its own reads), whatever the ledger holds
\* by the time it appends; nothing makes it look again.
C6_AppendOnOwnRead ==
    [][ \A h \in Handlers :
          (pc[h] = "add_tx" /\ local[h].cmd = "borrow" /\ pc'[h] # pc[h]) =>
             /\ local[h].r.total - local[h].borrowed >= local[h].qty
             /\ ws_tx' = Append(ws_tx, TxRow(source[h], local[h].item,
                                             local[h].qty, local[h].note))
      ]_vars

\* the largest total any message of the concurrent runs defines
MaxTotalConc ==
    CHOOSE t \in {IntVal(m.q) : m \in {x \in MessagesConc : x.word = P_additem}} :
        \A m \in {x \in MessagesConc : x.word = P_additem} : IntVal(m.q) <= t

\* C6 witness: two Borrow handlers of the same item both read enough stock and
\* both appended; the item's total is the largest it ever was, and more is
\* borrowed than the total
C6_Witness ==
    /\ \A h \in Handlers :
          /\ pc[h] = "finish" /\ reply[h].kind = "Borrowed"
          /\ reply[h].item = "tripod"
          /\ local[h].r.total - local[h].borrowed >= local[h].qty
    /\ ws_items = <<ItemsHeader, <<Str("tripod"), Num(MaxTotalConc), Str("")>>>>
    /\ sum_borrowed(ws_tx, "tripod") > MaxTotalConc
    /\ Available(ws_items, ws_tx, "tripod") < 0

\* C7: the ledger only grows at its end, by exactly one row in a step that ends
\* a Borrow or a Return with success, and in no other step.
C7_AppendOnly ==
    [][ /\ Len(ws_tx') >= Len(ws_tx)
        /\ SubSeq(ws_tx', 1, Len(ws_tx)) = ws_tx
        /\ Len(ws_tx') <= Len(ws_tx) + 1
        /\ (ws_tx' # ws_tx) <=>
              \E h \in Handlers :
                  Ends(h) /\ reply'[h].kind \in {"Borrowed", "Returned"}
      ]_vars

\* C7 witness: a return has just been appended after two other rows
C7_Witness ==
    /\ pc["h1"] = "finish"
    /\ reply["h1"].kind = "Returned"
    /\ Len(DataRows(ws_tx)) = 3
    /\ ws_tx[Len(ws_tx)].delta.n < 0

\* C8: after DefineItem(n, T, note), for every name n, get_item(n) gives total T
\* and that note, the catalog has exactly one row for n, every other row, the
\* header row and the ledger are unchanged.
C8_UpsertWholesale ==
    [][ \A h \in Handlers :
          (pc[h] = "upsert_write" /\ Ends(h)) =>
             LET n == local[h].item
             IN  /\ reply'[h].kind = "Defined"
                 /\ get_item(ws_items', n) =
                        [kind |-> "item", item |-> n, total |-> local[h].qty,
                         note |-> Str(local[h].note)]
                 /\ Cardinality({i \in 2..Len(ws_items') :
                                    ws_items'[i][1] = Str(n)}) = 1
                 /\ \A i \in 2..Len(ws_items) :
                        ws_items[i][1] # Str(n) => ws_items'[i] = ws_items[i]
                 /\ ws_items'[1] = ws_items[1]
                 /\ ws_tx' = ws_tx
      ]_vars

\* C9: right after DefineItem(item, T), availableQuantity(item) = T and
\* borrowedQuantity(item) = 0.
C9_DefinedMeansAvailable ==
    [][ \A h \in Handlers :
          (pc[h] = "upsert_write" /\ Ends(h)) =>
             /\ Registered(ws_items', local[h].item)
             /\ Available(ws_items', ws_tx', local[h].item) = local[h].qty
             /\ sum_borrowed(ws_tx', local[h].item) = 0
      ]_vars

\* C10: every row of the item registry has total >= 0.
C10_TotalNonNegative ==
    \A i \in 2..Len(ws_items) : ws_items[i][2].t = "n" /\ ws_items[i][2].n >= 0


\* C11: a command recognised as !additem, !borrow or !return with fewer than 3
\* tokens, or with a quantity token that is no integer (an optional minus sign
\* and digits), is answered with the usage text and changes no state; it never
\* ends in the exception path, and only a text that matches no prefix gets no
\* reply.
C11_IsInteger(tok) ==
    IsDigit(tok) \/ (tok # <<>> /\ Head(tok) = "-" /\ IsDigit(Tail(tok)))

C11_Malformed(loc) ==
    /\ loc.cmd \in {"additem", "borrow", "return"}
    /\ Len(loc.argv) < 2 \/ ~C11_IsInteger(loc.argv[2])

C11_MalformedGetsUsage ==
    [][ \A h \in Handlers :
          (pc[h] = "idle" /\ pc'[h] # "idle") =>
             /\ C11_Malformed(local'[h]) =>
                   /\ pc'[h] = "finish"
                   /\ reply'[h].kind = "MalformedArgs"
                   /\ ws_items' = ws_items /\ ws_tx' = ws_tx
             /\ reply'[h].kind = "NoReply" => local'[h].cmd = "none"
      ]_vars


\* C12: Mine(actor) reports exactly the pairs (item, n) where n is the sum of
\* delta over the ledger rows of the actor for that item and n > 0: each such
\* item is listed once with that balance, an item with a balance of zero or
\* less is not listed, and rows of other users do not contribute.
C12_MineListsPositiveBalances ==
    [][ \A h \in Handlers :
          (local[h].cmd = "mine" /\ Ends(h)) =>
             LET lines == reply'[h].lines
                 u == source[h].uid
             IN  /\ reply'[h].kind = "Mine"
                 /\ { <<lines[j].item, lines[j].n>> : j \in 1..Len(lines) }
                      = { <<i, user_borrowed(ws_tx, u, i)>> :
                            i \in { k \in ItemNames :
                                      user_borrowed(ws_tx, u, k) > 0 } }
                 /\ \A j, k \in 1..Len(lines) :
                       lines[j].item = lines[k].item => j = k
      ]_vars

\* C12 witness (Scenario C): the actor borrowed and returned a tripod and
\* borrowed a cable; Mine lists the cable only
C12_Witness ==
    /\ pc["h1"] = "finish"
    /\ reply["h1"].kind = "Mine"
    /\ reply["h1"].lines = <<[item |-> "cable", n |-> 1]>>
    /\ \E j \in 2..Len(ws_tx) :
          ws_tx[j].user_id = source["h1"].uid /\ ws_tx[j].item = "tripod"
                                              /\ DeltaOf(ws_tx[j]) < 0


\* C13: Status (with or without an item), Mine and Help leave both sheets
\* unchanged, and the report of Status without an item is a function of the two
\* sheets alone (so two reports with no write in between are identical): one
\* line for each row of the catalog, in order, with the total of the catalog,
\* borrowed = the sum of the ledger and available = total - borrowed, not
\* floored at zero.
C13_Queries == {"status", "status_all", "mine", "help"}

C13_QueriesArePure ==
    [][ \A h \in Handlers :
          /\ (pc'[h] # pc[h]
                /\ (local[h].cmd \in C13_Queries \/ local'[h].cmd \in C13_Queries))
               => ws_items' = ws_items /\ ws_tx' = ws_tx
          /\ (Ends(h) /\ reply'[h].kind = "StatusAll") =>
               LET lines == reply'[h].lines
               IN  /\ Len(lines) = Len(DataRows(ws_items))
                   /\ \A j \in 1..Len(lines) :
                         /\ Str(lines[j].item) = ws_items[j + 1][1]
                         /\ lines[j].total = get_item(ws_items, lines[j].item).total
                         /\ lines[j].borrowed = sum_borrowed(ws_tx, lines[j].item)
                         /\ lines[j].avail = lines[j].total - lines[j].borrowed
          /\ (Ends(h) /\ reply'[h].kind = "Status") =>
               /\ reply'[h].total = get_item(ws_items, reply'[h].item).total
               /\ reply'[h].borrowed = sum_borrowed(ws_tx, reply'[h].item)
               /\ reply'[h].avail = reply'[h].total - reply'[h].borrowed
      ]_vars

\* C13 witness: a report of two items, one of them with more units out than
\* its total, so that its available quantity is negative
C13_Witness ==
    /\ pc["h1"] = "finish"
    /\ reply["h1"].kind = "StatusAll"
    /\ Len(reply["h1"].lines) = 2
    /\ \E j \in 1..2 : /\ reply["h1"].lines[j].borrowed > 0
                       /\ reply["h1"].lines[j].total > 0
                       /\ reply["h1"].lines[j].avail < 0


\* C14: DefineItem on one name from two handlers at once is last-write-wins with
\* no duplicate: when a DefineItem of the name n ends, the catalog holds exactly
\* one row for n and get_item(n) returns the total and the note that this
\* handler, whose write is the last one so far, has written.
C14_RowsOf(items, n) == { j \in 2..Len(items) : items[j][1] = Str(n) }

C14_LastWriteWins ==
    [][ \A h \in Handlers :
          (local[h].cmd = "additem" /\ pc[h] = "upsert_write" /\ Ends(h)) =>
             LET n == local[h].item
                 r == get_item(ws_items', n)
             IN  /\ Cardinality(C14_RowsOf(ws_items', n)) = 1
                 /\ r.kind = "item"
                 /\ r.total = local[h].qty
                 /\ r.note = Str(local[h].note)
      ]_vars


\* C15: a Return(item, qty) appends a row iff the item is in the registry,
\* qty > 0 and the outstanding balance of the actor is positive; otherwise it
\* appends nothing and answers ItemNotFound (also when the actor holds units of
\* the item), else InvalidQuantity, else NothingToReturn.
C15_Expected(u, item, qty) ==
    IF ~Registered(ws_items, item) THEN "ItemNotFound"
    ELSE IF qty <= 0 THEN "InvalidQuantity"
    ELSE IF user_borrowed(ws_tx, u, item) <= 0 THEN "NothingToReturn"
    ELSE "Returned"

C15_ReturnIffOutstanding ==
    [][ \A h \in Handlers :
          InCommand(h, "return") =>
             LET want == C15_Expected(source[h].uid, local[h].item, local[h].qty)
             IN  /\ (ws_tx' # ws_tx) <=> (Ends(h) /\ want = "Returned")
                 /\ Ends(h) => reply'[h].kind = want
      ]_vars


\* C16: with commands run one at a time, in every reachable state the
\* outstanding balance of every user for every item is >= 0, and the borrowed
\* quantity of every item is the sum of the balances of all users for it.
RECURSIVE C16_SumOver(_, _)
C16_SumOver(S, item) ==
    IF S = {} THEN 0
    ELSE LET u == CHOOSE x \in S : TRUE
         IN  user_borrowed(ws_tx, u, item) + C16_SumOver(S \ {u}, item)

C16_BalancesNonNegative ==
    \A item \in ItemNames :
       /\ \A u \in Users : user_borrowed(ws_tx, u, item) >= 0
       /\ sum_borrowed(ws_tx, item) = C16_SumOver(Users, item)

\* C16 witness: two users have borrowed the item and one of them has returned
\* all of what they held
C16_Witness ==
    /\ \E j \in 2..Len(ws_tx) : DeltaOf(ws_tx[j]) < 0
    /\ \E u, v \in Users :
          /\ u # v
          /\ \E j \in 2..Len(ws_tx) : ws_tx[j].user_id = u /\ ws_tx[j].item = "tripod"
          /\ user_borrowed(ws_tx, u, "tripod") = 0
          /\ user_borrowed(ws_tx, v, "tripod") > 0


\* C17: with two Return handlers of one user for one item running at once, each
\* appends -min(qty, have) for the balance have > 0 that it has read itself at
\* its user_borrowed step, whatever the ledger holds when it writes; both can
\* have read the same balance, so a state is reachable where the balance of the
\* user is negative and the borrowed quantity of the item is lower than what
\* another user holds.
C17_ReturnOnStaleRead ==
    [][ \A h \in Handlers :
          /\ (local[h].cmd = "return" /\ pc[h] = "user_borrowed" /\ pc'[h] # pc[h])
               => /\ local'[h].have
                        = user_borrowed(ws_tx, source[h].uid, local[h].item)
                  /\ ws_tx' = ws_tx
          /\ (local[h].cmd = "return" /\ pc[h] = "add_tx" /\ pc'[h] # pc[h]) =>
               LET qty == local[h].qty
                   have == local[h].have
                   row == ws_tx'[Len(ws_tx')]
               IN  /\ have > 0 /\ qty > 0
                   /\ Len(ws_tx') = Len(ws_tx) + 1
                   /\ row.user_id = source[h].uid /\ row.item = local[h].item
                   /\ DeltaOf(row) = 0 - (IF qty <= have THEN qty ELSE have)
      ]_vars

\* C17 witness: both handlers have returned for the same user and item on the
\* same balance read; the balance of the user is negative and the borrowed
\* quantity of the item is below what the other user holds
C17_Witness ==
    /\ pc["h1"] = "finish" /\ pc["h2"] = "finish"
    /\ reply["h1"].kind = "Returned" /\ reply["h2"].kind = "Returned"
    /\ source["h1"].uid = source["h2"].uid
    /\ local["h1"].item = local["h2"].item
    /\ local["h1"].have = local["h2"].have
    /\ local["h1"].have > 0
    /\ user_borrowed(ws_tx, source["h1"].uid, local["h1"].item) < 0
    /\ \E v \in Users \ {source["h1"].uid} :
          /\ user_borrowed(ws_tx, v, local["h1"].item) > 0
          /\ sum_borrowed(ws_tx, local["h1"].item)
                < user_borrowed(ws_tx, v, local["h1"].item)


\* C18: the views of the ledger are partitioned by group: a step of a command
\* sent with one group_id changes, for no item, what a command sent with another
\* group_id is answered: whether the item is registered, its total, its borrowed
\* and available quantity, and the balance of a user of the other group, on
\* which the outcome of a Borrow or a Return depends.
C18_Groups == {s.gid : s \in Sources}

C18_View(items, tx, g, item) ==
    [registered |-> Registered(items, item),
     total |-> get_item(items, item).total,
     borrowed |-> sum_borrowed(tx, item),
     available |-> Available(items, tx, item),
     have |-> [s \in {x \in Sources : x.gid = g} |->
                  user_borrowed(tx, s.uid, item)]]

C18_GroupsPartitioned ==
    [][ \A h \in Handlers :
          (pc[h] \notin {"idle", "finish"} /\ pc'[h] # pc[h]) =>
             \A g \in C18_Groups \ {source[h].gid} : \A item \in ItemNames :
                C18_View(ws_items', ws_tx', g, item)
                   = C18_View(ws_items, ws_tx, g, item)
      ]_vars


\* C19: everything borrowed can be given back: with commands run one at a time,
\* a Return(item, q) of a user whose balance for the item is h > 0, with q >= h,
\* ends accepted (not with ItemNotFound, NothingToReturn or any other outcome)
\* and leaves the balance of the user for the item at 0.
C19_ReturnAllAccepted ==
    [][ \A h \in Handlers :
          LET u == source[h].uid
              item == local[h].item
              have == user_borrowed(ws_tx, u, item)
          IN  (InCommand(h, "return") /\ have > 0 /\ local[h].qty >= have
                  /\ Ends(h))
                => /\ reply'[h].kind = "Returned"
                   /\ user_borrowed(ws_tx', u, item) = 0
      ]_vars

====
